---- MODULE Spec2Model ----
(***************************************************************************)
(* A model of the glojure Lisp reader (lang/LispReader.go) and of the      *)
(* watches of a reference (lang.ARef).                                     *)
(*                                                                         *)
(* The reader is a recursive-descent parser over a bufio.Reader.  A rune   *)
(* is modelled as a one-character string, the input as a sequence of       *)
(* runes, and the bufio.Reader by its read index and lastRuneSize.  Every  *)
(* function of the reader is an operator that takes the reader state and   *)
(* returns an outcome record [r, val, panic]: the reader state after the   *)
(* call, the value returned, and the panic raised ("" when none).  One     *)
(* action of the model is one call of an exported method, with everything  *)
(* it calls.                                                               *)
(***************************************************************************)
EXTENDS Integers, Sequences, FiniteSets, TLC

VARIABLES
    input,          \* the runes behind lr.r, fixed for the reader's life
    pos,            \* lr.r: index of the next rune to read (1-based)
    lastRuneSize,   \* lr.r: size of the last rune read, -1 when none can be unread
    queue,          \* the elements of the caller's pending-forms *list.List
    readEval,       \* READEVAL.Deref()
    READ_EOF,       \* sentinel, drawn by rand.Int() at package initialisation
    READ_FINISHED,  \* sentinel, drawn by rand.Int() at package initialisation
    call,           \* the last call of an exported method: arguments, pre-state, outcome
    pushbacks,      \* history: calls of lr.UnreadRune since the last lr.ReadRune; 2 once
                    \* two of them followed each other
    watches,        \* a.watches of the one ARef a
    validator,      \* a.validator
    acall,          \* the last call of a method of a: arguments, pre-state, outcome
    history         \* history: the calls of a.AddWatch and a.RemoveWatch so far

readerVars ==
    <<input, pos, lastRuneSize, queue, readEval, READ_EOF, READ_FINISHED, call, pushbacks>>
arefVars == <<watches, validator, acall, history>>
vars == <<readerVars, arefVars>>

(***************************************************************************)
(* Bounds                                                                  *)
(***************************************************************************)
\* rand.Int() draws from [0, 2^63); the model draws from 0..MaxRand
MaxRand == 3
\* longest input made of free runes
MaxBody == 2
\* most forms in the body of a generated collection
MaxForms == 4
\* most digits of a generated number
MaxDigits == 3
\* most calls of AddWatch and RemoveWatch on the ARef
MaxCalls == 3

(***************************************************************************)
(* Runes                                                                   *)
(***************************************************************************)
\* rune(0): what ReadRune returns with io.EOF, and the "no delimiter" returnOn
NUL == "NUL"
\* the rune U+0060, which the string syntax of TLA+ cannot hold
BACKQUOTE == "BACKQUOTE"

\* unicode.IsSpace on the runes of the model
IsSpace(ch) == ch \in {" ", "\t", "\n", "\r", "\f"}

\* unicode.IsDigit on the runes of the model
IsDigit(ch) == ch \in {"0", "1", "2", "3", "4", "5", "6", "7", "8", "9"}

DigitValue(ch) ==
    CASE ch = "0" -> 0 [] ch = "1" -> 1 [] ch = "2" -> 2 [] ch = "3" -> 3
      [] ch = "4" -> 4 [] ch = "5" -> 5 [] ch = "6" -> 6 [] ch = "7" -> 7
      [] ch = "8" -> 8 [] ch = "9" -> 9

Max(S) == CHOOSE x \in S : \A y \in S : y <= x
Min(S) == CHOOSE x \in S : \A y \in S : x <= y

(***************************************************************************)
(* Forms and other Go values                                               *)
(***************************************************************************)
NoPanic == ""

Nil == [t |-> "nil"]
Bool(b) == [t |-> "bool", b |-> b]
GoInt(n) == [t |-> "int", n |-> n]
GoFloat(n) == [t |-> "float64", f |-> n]
Str(s) == [t |-> "string", s |-> s]
Regex(s) == [t |-> "*regexp.Regexp", re |-> s]
Symbol(ns, name) == [t |-> "*Symbol", ns |-> ns, name |-> name]
Keyword(sym) == [t |-> "*Keyword", sym |-> sym]
List(items) == [t |-> "*PersistentList", items |-> items]
Vector(items) == [t |-> "*PersistentVector", items |-> items]
\* the reader itself, which the comment and discard readers return
LispReaderPtr == [t |-> "*LispReader"]
\* lr.r, which Read compares a handler's result with
BufioReaderPtr == [t |-> "*bufio.Reader"]

QUOTE == Symbol(<<>>, <<"q", "u", "o", "t", "e">>)
THE_VAR == Symbol(<<>>, <<"v", "a", "r">>)
DEREF ==
    Symbol(<<"c", "l", "o", "j", "u", "r", "e", ".", "c", "o", "r", "e">>,
           <<"d", "e", "r", "e", "f">>)
UNKNOWN == Keyword(Symbol(<<>>, <<"u", "n", "k", "n", "o", "w", "n">>))
EMPTY_PERSISTENT_LIST == List(<<>>)

\* pendingForms arguments: nil, a *list.List (the caller's queue, or the fresh
\* list of ensurePending), or a list.List value (a copy of the queue's header)
NilPending == [type |-> "nil", of |-> "none"]
QueuePtr == [type |-> "*list.List", of |-> "queue"]
FreshPtr == [type |-> "*list.List", of |-> "fresh"]
QueueCopy == [type |-> "list.List", of |-> "queue"]

(***************************************************************************)
(* Outcomes                                                                *)
(***************************************************************************)
Return(r, v) == [r |-> r, val |-> v, panic |-> NoPanic]
Panic(r, msg) == [r |-> r, val |-> Nil, panic |-> msg]
Panicked(o) == o.panic # NoPanic

\* Util.SneakyThrow(err): rethrows err
SneakyThrow(r, err) == Panic(r, err)

(***************************************************************************)
(* The Char Source: lr.r                                                   *)
(***************************************************************************)
\* the history of pushbacks after a call of ReadRune, and after one of UnreadRune
Read0(n) == IF n = 2 THEN 2 ELSE 0
Unread1(n) == IF n = 0 THEN 1 ELSE 2

\* (ch, err) of lr.ReadRune(); bufio sets lastRuneSize to -1 at end of input
ReadRune(r) ==
    IF r.pos > Len(input)
    THEN [r |-> [r EXCEPT !.lastRuneSize = -1, !.pushbacks = Read0(r.pushbacks)],
          ch |-> NUL, err |-> "EOF"]
    ELSE [r |-> [r EXCEPT !.pos = r.pos + 1, !.lastRuneSize = 1,
                          !.pushbacks = Read0(r.pushbacks)],
          ch |-> input[r.pos], err |-> "nil"]

\* bufio.Reader.UnreadRune fails unless the last operation was a ReadRune that
\* returned a rune
UnreadRune(r) ==
    IF r.lastRuneSize < 0 \/ r.pos - 1 < r.lastRuneSize
    THEN SneakyThrow([r EXCEPT !.pushbacks = Unread1(r.pushbacks)],
                     "bufio: invalid use of UnreadRune")
    ELSE Return([r EXCEPT !.pos = r.pos - r.lastRuneSize, !.lastRuneSize = -1,
                          !.pushbacks = Unread1(r.pushbacks)], Nil)

\* the elements reachable through a pendingForms argument
Elements(r, pendingForms) ==
    IF pendingForms.of = "queue" THEN r.queue ELSE <<>>

ensurePending(pendingForms) ==
    IF pendingForms = NilPending THEN FreshPtr ELSE pendingForms

(***************************************************************************)
(* Token classifier                                                        *)
(***************************************************************************)
macros(ch) ==
    CASE ch = "\"" -> "StringReader"
      [] ch = ";" -> "CommentReader"
      [] ch = "'" -> "WrappingReader"
      [] ch = "@" -> "WrappingReader"
      [] ch = "^" -> "MetaReader"
      [] ch = BACKQUOTE -> "SyntaxQuoteReader"
      [] ch = "~" -> "UnquoteReader"
      [] ch = "(" -> "ListReader"
      [] ch = ")" -> "UnmatchedDelimiterReader"
      [] ch = "[" -> "VectorReader"
      [] ch = "]" -> "UnmatchedDelimiterReader"
      [] ch = "{" -> "MapReader"
      [] ch = "}" -> "UnmatchedDelimiterReader"
      [] ch = "\\" -> "RuneReader"
      [] ch = "%" -> "ArgReader"
      [] ch = "#" -> "DispatchReader"
      [] OTHER -> "nil"

dispatchMacros(ch) ==
    CASE ch = "^" -> "MetaReader"
      [] ch = "'" -> "VarReader"
      [] ch = "\"" -> "RegexReader"
      [] ch = "(" -> "FnReader"
      [] ch = "{" -> "SetReader"
      [] ch = "=" -> "EvalReader"
      [] ch = "!" -> "CommentReader"
      [] ch = "<" -> "UnreadableReader"
      [] ch = "_" -> "DiscardReader"
      [] ch = "?" -> "ConditionalReader"
      [] OTHER -> "nil"

IsMacro(ch) == macros(ch) # "nil"

IsTerminatingMacro(ch) == ch # "#" /\ ch # "'" /\ ch # "%" /\ IsMacro(ch)

(***************************************************************************)
(* Literal parsers                                                         *)
(***************************************************************************)
\* results of the functions that take no reader
Result(v) == [val |-> v, panic |-> NoPanic]
Thrown(msg) == [val |-> Nil, panic |-> msg]

RECURSIVE ReadTokenLoop(_, _)
\* the for loop of ReadToken; b is the bytes.Buffer
ReadTokenLoop(r, b) ==
    LET rr == ReadRune(r) IN
    IF rr.err # "nil" \/ IsSpace(rr.ch) \/ IsTerminatingMacro(rr.ch)
    THEN LET u == UnreadRune(rr.r) IN
         IF Panicked(u) THEN u ELSE Return(u.r, b)
    ELSE ReadTokenLoop(rr.r, Append(b, rr.ch))

ReadToken(r, initch) == ReadTokenLoop(r, <<initch>>)

RECURSIVE DecimalValue(_)
DecimalValue(ds) ==
    IF ds = <<>> THEN 0
    ELSE 10 * DecimalValue(SubSeq(ds, 1, Len(ds) - 1)) + DigitValue(ds[Len(ds)])

\* the digits of s after an optional sign
Unsigned(s) == IF s # <<>> /\ s[1] \in {"+", "-"} THEN Tail(s) ELSE s
IsDecimal(s) == Unsigned(s) # <<>> /\ \A i \in 1..Len(Unsigned(s)) : IsDigit(Unsigned(s)[i])
SignedValue(s) ==
    IF s[1] = "-" THEN 0 - DecimalValue(Unsigned(s)) ELSE DecimalValue(Unsigned(s))

\* the digits of 2^63, the magnitude of the least int64
MinInt64Magnitude ==
    <<"9", "2", "2", "3", "3", "7", "2", "0", "3", "6", "8", "5", "4", "7", "7", "5", "8", "0", "8">>

RECURSIVE StripZeros(_)
StripZeros(ds) == IF Len(ds) > 1 /\ ds[1] = "0" THEN StripZeros(Tail(ds)) ELSE ds

RECURSIVE DigitsLess(_, _)
\* a < b for digit sequences of one length
DigitsLess(a, b) ==
    IF a = <<>> THEN FALSE
    ELSE IF a[1] # b[1] THEN DigitValue(a[1]) < DigitValue(b[1])
    ELSE DigitsLess(Tail(a), Tail(b))

\* the decimal ds is less than 2^63
BelowTwoTo63(ds) ==
    LET d == StripZeros(ds) IN
    Len(d) < Len(MinInt64Magnitude)
       \/ (Len(d) = Len(MinInt64Magnitude) /\ DigitsLess(d, MinInt64Magnitude))

\* strconv.ParseInt(s, 10, 64): [err, n]; n is read only when err is "nil"
ParseInt(s) ==
    IF ~IsDecimal(s) THEN [err |-> "syntax", n |-> 0]
    ELSE IF BelowTwoTo63(Unsigned(s)) THEN [err |-> "nil", n |-> SignedValue(s)]
    ELSE IF s[1] = "-" /\ StripZeros(Unsigned(s)) = MinInt64Magnitude
    THEN [err |-> "nil", n |-> SignedValue(s)]
    ELSE [err |-> "range", n |-> 0]

\* strconv.ParseFloat(s, 64) on the texts ReadNumber builds, which hold signs
\* and digits only: [err, f], f the decimal text of the float
ParseFloat(s) ==
    IF ~IsDecimal(s) THEN [err |-> "syntax", f |-> <<>>]
    ELSE [err |-> "nil", f |-> s]

RECURSIVE ReadNumberLoop(_, _, _)
\* the for loop of ReadNumber; sb is the bytes.Buffer
ReadNumberLoop(r, initch, sb) ==
    LET rr == ReadRune(r) IN
    IF rr.err # "nil" \/ IsSpace(rr.ch) \/ IsMacro(rr.ch)
    THEN LET u == UnreadRune(rr.r) IN
         IF Panicked(u) THEN u ELSE Return(u.r, sb)
    ELSE ReadNumberLoop(rr.r, initch, Append(sb, initch))

\* the outcome, with the reader at r, of a function that takes no reader
WithReader(r, res) == [r |-> r, val |-> res.val, panic |-> res.panic]

\* what ReadNumber returns for the results n of ParseInt and f of ParseFloat
NumberOf(n, f) ==
    IF n.err # "nil" /\ f.err # "nil" THEN Thrown("Invalid number")
    ELSE IF n.err # "nil" THEN Result(GoFloat(f.f))
    ELSE Result(GoInt(n.n))

\* ReadNumber after its loop ended with outcome t, the text in t.val
ReadNumberParse(t) ==
    IF Panicked(t) THEN t
    ELSE WithReader(t.r, NumberOf(ParseInt(t.val), ParseFloat(t.val)))

ReadNumber(r, initch) == ReadNumberParse(ReadNumberLoop(r, initch, <<initch>>))

(***************************************************************************)
(* symbolPat, matched as regexp.FindStringSubmatch matches it: the         *)
(* leftmost match, and among those the one backtracking prefers            *)
(***************************************************************************)
\* (/|[^\d/][^/]*) tried at index m: the index after the match, 0 when none
SymbolPatNameEnd(s, m) ==
    IF m > Len(s) THEN 0
    ELSE IF s[m] = "/" THEN m + 1
    ELSE IF IsDigit(s[m]) THEN 0
    ELSE LET stops == {k \in (m + 1)..Len(s) : s[k] = "/"} IN
         IF stops = {} THEN Len(s) + 1 ELSE Min(stops)

\* the slashes that can end ([^/\d].*/) begun at j with the name matching after
SymbolPatNsEnds(s, j) ==
    IF j > Len(s) \/ s[j] = "/" \/ IsDigit(s[j]) THEN {}
    ELSE {k \in (j + 1)..Len(s) : s[k] = "/" /\ SymbolPatNameEnd(s, k + 1) # 0}

\* ([^/\d].*/)?(/|[^\d/][^/]*) tried at j
SymbolPatRest(s, j) ==
    IF SymbolPatNsEnds(s, j) # {}
    THEN LET k == Max(SymbolPatNsEnds(s, j)) IN
         [ok |-> TRUE, ns |-> SubSeq(s, j, k),
          name |-> SubSeq(s, k + 1, SymbolPatNameEnd(s, k + 1) - 1)]
    ELSE IF SymbolPatNameEnd(s, j) # 0
    THEN [ok |-> TRUE, ns |-> <<>>, name |-> SubSeq(s, j, SymbolPatNameEnd(s, j) - 1)]
    ELSE [ok |-> FALSE, ns |-> <<>>, name |-> <<>>]

\* the whole pattern tried at i
SymbolPatAt(s, i) ==
    IF s[i] = ":" /\ SymbolPatRest(s, i + 1).ok THEN SymbolPatRest(s, i + 1)
    ELSE SymbolPatRest(s, i)

symbolPat(s) ==
    LET starts == {i \in 1..Len(s) : SymbolPatAt(s, i).ok} IN
    IF starts = {} THEN [ok |-> FALSE, ns |-> <<>>, name |-> <<>>]
    ELSE SymbolPatAt(s, Min(starts))

HasSuffix(s, suffix) ==
    Len(s) >= Len(suffix) /\ SubSeq(s, Len(s) - Len(suffix) + 1, Len(s)) = suffix
HasPrefix(s, prefix) ==
    Len(s) >= Len(prefix) /\ SubSeq(s, 1, Len(prefix)) = prefix
\* strings.Index(s, sub) # -1
Contains(s, sub) ==
    \E i \in 1..(Len(s) - Len(sub) + 1) : SubSeq(s, i, i + Len(sub) - 1) = sub

\* InternSymbol(nsname): the text before the first "/" is the namespace
InternSymbol(nsname) ==
    LET slashes == {i \in 1..Len(nsname) : nsname[i] = "/"} IN
    IF slashes = {} \/ nsname = <<"/">> THEN Symbol(<<>>, nsname)
    ELSE Symbol(SubSeq(nsname, 1, Min(slashes) - 1),
                SubSeq(nsname, Min(slashes) + 1, Len(nsname)))

InternKeyword(sym) == Keyword(sym)
InternKeywordByNsAndName(ns, name) == Keyword(Symbol(ns, name))

\* Compiler.CurrentNS().name.name
CurrentNS == <<"u">>
\* Compiler.NamespaceFor(Compiler.CurrentNS(), ks): the current namespace has no
\* aliases and is the only namespace; [found, name]
NamespaceFor(ks) ==
    IF ks.ns = CurrentNS THEN [found |-> TRUE, name |-> CurrentNS]
    ELSE [found |-> FALSE, name |-> <<>>]

\* matchSymbol with the submatches m of symbolPat
matchSymbolGroups(s, m) ==
    IF ~m.ok THEN Nil
    ELSE IF \/ (m.ns # <<>> /\ HasSuffix(m.ns, <<":", "/">>))
            \/ HasSuffix(m.name, <<":">>)
            \/ Contains(Tail(s), <<":", ":">>)
    THEN Nil
    ELSE IF HasPrefix(s, <<":", ":">>)
    THEN LET ks == InternSymbol(SubSeq(s, 3, Len(s)))
             kns == IF ks.ns # <<>> THEN NamespaceFor(ks)
                    ELSE [found |-> TRUE, name |-> CurrentNS]
         IN  IF kns.found THEN InternKeywordByNsAndName(kns.name, ks.name) ELSE Nil
    ELSE IF s[1] = ":" THEN InternKeyword(InternSymbol(Tail(s)))
    ELSE InternSymbol(s)

matchSymbol(s) == matchSymbolGroups(s, symbolPat(s))

\* the end of interpretToken: ret is what matchSymbol returned
interpretSymbol(ret) == IF ret # Nil THEN Result(ret) ELSE Thrown("Invalid token")

interpretToken(s) ==
    IF s = <<"n", "i", "l">> THEN Result(Nil)
    ELSE IF s = <<"t", "r", "u", "e">> THEN Result(Bool(TRUE))
    ELSE IF s = <<"f", "a", "l", "s", "e">> THEN Result(Bool(FALSE))
    ELSE interpretSymbol(matchSymbol(s))

(***************************************************************************)
(* Form readers and the reader engine                                      *)
(***************************************************************************)
RECURSIVE Read(_, _, _, _, _, _, _, _)
RECURSIVE ReadLoop(_, _, _, _, _, _, _, _)
RECURSIVE ReadDelimitedList(_, _, _, _, _)
RECURSIVE Invoke(_, _, _, _, _)

\* the runes with a Go escape that the string syntax of TLA+ cannot hold
BACKSPACE == "BACKSPACE"

\* the rune a string escape \ch stands for, as the switch of StringReader sets it
EscapedRune(ch) ==
    CASE ch = "t" -> "\t"
      [] ch = "r" -> "\r"
      [] ch = "n" -> "\n"
      [] ch = "b" -> BACKSPACE
      [] ch = "f" -> "\f"
      [] OTHER -> ch

RECURSIVE StringReaderLoop(_, _)
\* the for loop of StringReader; sb is the bytes.Buffer
StringReaderLoop(r, sb) ==
    LET rr == ReadRune(r) IN
    IF rr.ch = "\"" THEN Return(rr.r, Str(sb))
    ELSE IF rr.err = "EOF" THEN Panic(rr.r, "EOF while reading string")
    ELSE IF rr.ch = "\\"
    THEN LET e == ReadRune(rr.r) IN
         IF e.err = "EOF" THEN Panic(e.r, "EOF while reading string")
         ELSE IF e.ch = "u"
         THEN LET u == ReadRune(e.r) IN StringReaderLoop(u.r, Append(sb, u.ch))
         ELSE StringReaderLoop(e.r, Append(sb, EscapedRune(e.ch)))
    ELSE StringReaderLoop(rr.r, Append(sb, rr.ch))

StringReader(r, ch, opts, pendingForms) == StringReaderLoop(r, <<>>)

RECURSIVE ParenDepth(_, _)
\* the nesting depth after the pattern s read from depth d, -1 once a ")" closes nothing;
\* an escaped rune is a literal
ParenDepth(s, d) ==
    IF s = <<>> THEN d
    ELSE IF s[1] = "\\" THEN ParenDepth(SubSeq(s, 3, Len(s)), d)
    ELSE IF s[1] = "(" THEN ParenDepth(Tail(s), d + 1)
    ELSE IF s[1] = ")" THEN (IF d = 0 THEN -1 ELSE ParenDepth(Tail(s), d - 1))
    ELSE ParenDepth(Tail(s), d)

\* regexp.MustCompile(s) on patterns of literal runes and groups: it panics when
\* the parentheses do not balance
MustCompile(r, s) ==
    IF ParenDepth(s, 0) = 0 THEN Return(r, Regex(s))
    ELSE Panic(r, "regexp: Compile: error parsing regexp")

RECURSIVE RegexReaderLoop(_, _)
\* the for loop of RegexReader; sb is the bytes.Buffer
RegexReaderLoop(r, sb) ==
    LET rr == ReadRune(r) IN
    IF rr.ch = "\"" THEN MustCompile(rr.r, sb)
    ELSE IF rr.err = "EOF" THEN Panic(rr.r, "EOF while reading regex")
    ELSE IF rr.ch = "\\"
    THEN LET e == ReadRune(rr.r) IN
         IF e.err = "EOF" THEN Panic(e.r, "EOF while reading regex")
         ELSE RegexReaderLoop(e.r, sb \o <<rr.ch, e.ch>>)
    ELSE RegexReaderLoop(rr.r, Append(sb, rr.ch))

RegexReader(r, ch, opts, pendingForms) == RegexReaderLoop(r, <<>>)

RECURSIVE CommentReaderLoop(_)
\* the for loop of CommentReader: through the end of the line, or the input
CommentReaderLoop(r) ==
    LET rr == ReadRune(r) IN
    IF rr.ch # "\n" /\ rr.ch # "\r" /\ rr.err # "EOF" THEN CommentReaderLoop(rr.r)
    ELSE rr.r

CommentReader(r, ch, opts, pendingForms) == Return(CommentReaderLoop(r), LispReaderPtr)

\* DiscardReader after its call of Read returned o: return r
DiscardReaderReturn(o) == IF Panicked(o) THEN o ELSE Return(o.r, LispReaderPtr)

DiscardReader(r, ch, opts, pendingForms) ==
    DiscardReaderReturn(Read(r, TRUE, Nil, NUL, Nil, TRUE, opts, ensurePending(pendingForms)))

WrappingReader(r, ch, opts, pendingForms) == Return(r, Nil)

\* VarReader after its call of Read returned o: return RT.List(THE_VAR, o)
VarReaderReturn(o) == IF Panicked(o) THEN o ELSE Return(o.r, List(<<THE_VAR, o.val>>))

VarReader(r, ch, opts, pendingForms) ==
    VarReaderReturn(Read(r, TRUE, Nil, NUL, Nil, TRUE, opts, ensurePending(pendingForms)))

CtorReader(r, ch, opts, pendingForms) == Return(r, Nil)

DispatchReader(r, ch, opts, pendingForms) ==
    LET rr == ReadRune(r) IN
    IF rr.err = "EOF" THEN Panic(rr.r, "EOF while reading character")
    ELSE IF dispatchMacros(rr.ch) = "nil"
    THEN LET u == UnreadRune(rr.r) IN
         IF Panicked(u) THEN u
         ELSE LET result == CtorReader(u.r, rr.ch, opts, ensurePending(pendingForms)) IN
              IF result.val # Nil THEN result
              ELSE Panic(result.r, "No dispatch macro for: ")
    ELSE Invoke(dispatchMacros(rr.ch), rr.r, rr.ch, opts, pendingForms)

FnReader(r, ch, opts, pendingForms) == Return(r, Nil)
ArgReader(r, ch, opts, pendingForms) == Return(r, Nil)
MetaReader(r, ch, opts, pendingForms) == Return(r, Nil)
SyntaxQuoteReader(r, ch, opts, pendingForms) == Return(r, Nil)
UnquoteReader(r, ch, opts, pendingForms) == Return(r, Nil)
RuneReader(r, ch, opts, pendingForms) == Return(r, Nil)
EvalReader(r, ch, opts, pendingForms) == Return(r, Nil)
SetReader(r, ch, opts, pendingForms) == Return(r, Nil)
UnmatchedDelimiterReader(r, ch, opts, pendingForms) == Return(r, Nil)
UnreadableReader(r, ch, opts, pendingForms) == Return(r, Nil)
ConditionalReader(r, ch, opts, pendingForms) == Return(r, Nil)

\* ListReader after ReadDelimitedList returned l
ListReaderReturn(l) ==
    IF Panicked(l) THEN l
    ELSE IF Len(l.val) = 0 THEN Return(l.r, EMPTY_PERSISTENT_LIST)
    ELSE Return(l.r, List(l.val))

ListReader(r, ch, opts, pendingForms) ==
    ListReaderReturn(ReadDelimitedList(r, ")", TRUE, opts, ensurePending(pendingForms)))

\* VectorReader after ReadDelimitedList returned a
VectorReaderReturn(a) == IF Panicked(a) THEN a ELSE Return(a.r, Vector(a.val))

VectorReader(r, ch, opts, pendingForms) ==
    VectorReaderReturn(ReadDelimitedList(r, "]", TRUE, opts, ensurePending(pendingForms)))

\* the keys of the key/value sequence a
MapKeys(a) == [i \in 1..(Len(a) \div 2) |-> a[2 * i - 1]]

\* RT.Map(a...): the map of the pairs of a, which fails on a duplicate key
RTMap(a) ==
    IF \E i, j \in 1..(Len(a) \div 2) : i # j /\ MapKeys(a)[i] = MapKeys(a)[j]
    THEN Thrown("Duplicate key")
    ELSE Result([t |-> "*PersistentArrayMap",
                 entries |-> [i \in 1..(Len(a) \div 2) |-> <<a[2 * i - 1], a[2 * i]>>]])

\* a mutant of MapReaderReturn: the parity test is inverted
MapReaderEvenFails(a) ==
    IF Panicked(a) THEN a
    ELSE IF Len(a.val) % 2 = 0
    THEN Panic(a.r, "Map literal must contain an even number of forms.")
    ELSE WithReader(a.r, RTMap(a.val))

\* MapReader after ReadDelimitedList returned a
MapReaderReturn(a) ==
    IF Panicked(a) THEN a
    ELSE IF Len(a.val) % 2 = 1
    THEN Panic(a.r, "Map literal must contain an even number of forms.")
    ELSE WithReader(a.r, RTMap(a.val))

MapReader(r, ch, opts, pendingForms) ==
    MapReaderReturn(ReadDelimitedList(r, "}", TRUE, opts, ensurePending(pendingForms)))

\* fn.Invoke(r, ch, opts, pendingForms) for the handler the tables name
Invoke(fn, r, ch, opts, pendingForms) ==
    CASE fn = "StringReader" -> StringReader(r, ch, opts, pendingForms)
      [] fn = "CommentReader" -> CommentReader(r, ch, opts, pendingForms)
      [] fn = "WrappingReader" -> WrappingReader(r, ch, opts, pendingForms)
      [] fn = "MetaReader" -> MetaReader(r, ch, opts, pendingForms)
      [] fn = "SyntaxQuoteReader" -> SyntaxQuoteReader(r, ch, opts, pendingForms)
      [] fn = "UnquoteReader" -> UnquoteReader(r, ch, opts, pendingForms)
      [] fn = "ListReader" -> ListReader(r, ch, opts, pendingForms)
      [] fn = "UnmatchedDelimiterReader" -> UnmatchedDelimiterReader(r, ch, opts, pendingForms)
      [] fn = "VectorReader" -> VectorReader(r, ch, opts, pendingForms)
      [] fn = "MapReader" -> MapReader(r, ch, opts, pendingForms)
      [] fn = "RuneReader" -> RuneReader(r, ch, opts, pendingForms)
      [] fn = "ArgReader" -> ArgReader(r, ch, opts, pendingForms)
      [] fn = "DispatchReader" -> DispatchReader(r, ch, opts, pendingForms)
      [] fn = "VarReader" -> VarReader(r, ch, opts, pendingForms)
      [] fn = "RegexReader" -> RegexReader(r, ch, opts, pendingForms)
      [] fn = "FnReader" -> FnReader(r, ch, opts, pendingForms)
      [] fn = "SetReader" -> SetReader(r, ch, opts, pendingForms)
      [] fn = "EvalReader" -> EvalReader(r, ch, opts, pendingForms)
      [] fn = "UnreadableReader" -> UnreadableReader(r, ch, opts, pendingForms)
      [] fn = "DiscardReader" -> DiscardReader(r, ch, opts, pendingForms)
      [] fn = "ConditionalReader" -> ConditionalReader(r, ch, opts, pendingForms)

RECURSIVE SkipSpaces(_)
\* for unicode.IsSpace(ch) { ch, err = lr.ReadRune() }
SkipSpaces(rr) == IF IsSpace(rr.ch) THEN SkipSpaces(ReadRune(rr.r)) ELSE rr

\* return interpretToken(token), token the outcome of ReadToken
ReadTokenInterpret(token) ==
    IF Panicked(token) THEN token ELSE WithReader(token.r, interpretToken(token.val))

\* the last statements of the loop of Read: the token and its interpretation
ReadTokenForm(r, ch) == ReadTokenInterpret(ReadToken(r, ch))

\* a mutant of ReadSigned: the sign is pushed back after the rune that follows it
ReadSignedUnreadsBoth(r, ch) ==
    LET ch2 == ReadRune(r)
        u == UnreadRune(ch2.r)
    IN  IF Panicked(u) THEN u ELSE UnreadRune(u.r)

\* the branch of Read for "+" and "-": a number when a digit follows
ReadSigned(r, ch) ==
    LET ch2 == ReadRune(r)
        u == UnreadRune(ch2.r)
    IN  IF Panicked(u) THEN u
        ELSE IF IsDigit(ch2.ch) THEN ReadNumber(u.r, ch)
        ELSE ReadTokenForm(u.r, ch)

RECURSIVE ReadMacro(_, _, _, _, _, _, _, _)
\* Read after macroFn.Invoke returned ret: no rdr action, or the form
ReadMacro(ret, eofIsError, eofValue, returnOn, returnOnValue, isRecursive, opts, pendingForms) ==
    IF Panicked(ret) THEN ret
    ELSE IF ret.val = BufioReaderPtr
    THEN ReadLoop(ret.r, eofIsError, eofValue, returnOn, returnOnValue,
                  isRecursive, opts, pendingForms)
    ELSE ret

\* one pass of the for loop of Read
ReadLoop(r, eofIsError, eofValue, returnOn, returnOnValue, isRecursive, opts, pendingForms) ==
    IF pendingForms.type = "list.List" /\ Len(Elements(r, pendingForms)) # 0
    THEN \* pf is a copy of the list: Remove returns the value of the front
         \* element and unlinks nothing, the element being of another list
         Return(r, Head(Elements(r, pendingForms)))
    ELSE
    LET rr == SkipSpaces(ReadRune(r)) IN
    IF rr.err = "EOF"
    THEN (IF eofIsError THEN Panic(rr.r, "EOF while reading") ELSE Return(rr.r, eofValue))
    ELSE IF returnOn # NUL /\ returnOn = rr.ch THEN Return(rr.r, returnOnValue)
    ELSE IF IsDigit(rr.ch) THEN ReadNumber(rr.r, rr.ch)
    ELSE IF macros(rr.ch) # "nil"
    THEN ReadMacro(Invoke(macros(rr.ch), rr.r, rr.ch, opts, pendingForms),
                   eofIsError, eofValue, returnOn, returnOnValue, isRecursive, opts,
                   pendingForms)
    ELSE IF rr.ch = "+" \/ rr.ch = "-" THEN ReadSigned(rr.r, rr.ch)
    ELSE ReadTokenForm(rr.r, rr.ch)

\* Read, were the read-eval flag tested on the outcome o of the loop
ReadEvalAfter(o) ==
    IF readEval = UNKNOWN
    THEN Panic(o.r, "Reading disallowed - *read-eval* bound to :unknown")
    ELSE o

\* a mutant of Read: the read-eval flag is tested after the form is read
ReadChecksLate(r, eofIsError, eofValue, returnOn, returnOnValue, isRecursive, opts, pendingForms) ==
    ReadEvalAfter(ReadLoop(r, eofIsError, eofValue, returnOn, returnOnValue,
                           isRecursive, opts, pendingForms))

Read(r, eofIsError, eofValue, returnOn, returnOnValue, isRecursive, opts, pendingForms) ==
    IF readEval = UNKNOWN
    THEN Panic(r, "Reading disallowed - *read-eval* bound to :unknown")
    ELSE ReadLoop(r, eofIsError, eofValue, returnOn, returnOnValue,
                  isRecursive, opts, pendingForms)

\* the outcome of a loop that repeats one pass for ever: the call never returns
NoReturn == "<no return>"
Diverges(r) == Panic(r, NoReturn)

RECURSIVE ReadDelimitedListLoop(_, _, _, _, _, _)
RECURSIVE ReadDelimitedListForm(_, _, _, _, _, _, _)
\* a pass that does not look for READ_EOF: at the end of the input every pass
\* appends the sentinel and none moves the reader
ReadDelimitedListFormKeepsEOF(form, r, delim, isRecursive, opts, pendingForms, a) ==
    IF Panicked(form) THEN form
    ELSE IF form.val = GoInt(READ_FINISHED) THEN Return(form.r, a)
    ELSE IF form.r = r THEN Diverges(r)
    ELSE ReadDelimitedListLoop(form.r, delim, isRecursive, opts, pendingForms,
                               Append(a, form.val))

\* one pass of the loop of ReadDelimitedList after Read returned form from the
\* reader state r; a pass that leaves the reader as it was is repeated for ever
ReadDelimitedListForm(form, r, delim, isRecursive, opts, pendingForms, a) ==
    IF Panicked(form) THEN form
    ELSE IF form.val = GoInt(READ_EOF) THEN Panic(form.r, "EOF while reading")
    ELSE IF form.val = GoInt(READ_FINISHED) THEN Return(form.r, a)
    ELSE IF form.r = r THEN Diverges(r)
    ELSE ReadDelimitedListLoop(form.r, delim, isRecursive, opts, pendingForms,
                               Append(a, form.val))

\* the for loop of ReadDelimitedList; a is the slice
ReadDelimitedListLoop(r, delim, isRecursive, opts, pendingForms, a) ==
    ReadDelimitedListForm(Read(r, FALSE, GoInt(READ_EOF), delim, GoInt(READ_FINISHED),
                               isRecursive, opts, pendingForms),
                          r, delim, isRecursive, opts, pendingForms, a)

ReadDelimitedList(r, delim, isRecursive, opts, pendingForms) ==
    ReadDelimitedListLoop(r, delim, isRecursive, opts, pendingForms, <<>>)

(***************************************************************************)
(* ARef: the watches and the validator of a reference (lang.ARef)          *)
(*                                                                         *)
(* An IPersistentMap is modelled by its entries <<key, value>> in the      *)
(* order of Seq().  A method of ARef is an operator on the fields of the   *)
(* receiver a, [watches, validator].  Callbacks are opaque: a call of one  *)
(* is recorded and does not touch a.                                       *)
(***************************************************************************)
EmptyMap == [t |-> "*PersistentArrayMap", entries |-> <<>>]
IFn(name) == [t |-> "IFn", name |-> name]

\* the index of the entry of m for key, 0 when m has none
IndexOf(m, key) ==
    IF \E i \in 1..Len(m.entries) : m.entries[i][1] = key
    THEN CHOOSE i \in 1..Len(m.entries) : m.entries[i][1] = key
    ELSE 0
\* m.Assoc(key, val): a map with key bound to val and the other entries of m
AssocAt(m, i, key, val) ==
    IF i = 0 THEN [m EXCEPT !.entries = Append(@, <<key, val>>)]
    ELSE [m EXCEPT !.entries[i] = <<key, val>>]
Assoc(m, key, val) == AssocAt(m, IndexOf(m, key), key, val)
\* m.Without(key): a map with the entries of m but the one for key
Without(m, key) == [m EXCEPT !.entries = SelectSeq(@, LAMBDA e : e[1] # key)]
\* m.Count()
Count(m) == Len(m.entries)
\* m.Seq(): the entries of m, nil (the empty sequence) when it has none
MapSeq(m) == m.entries

\* the pointer a that the methods return and hand to the callbacks
This == [t |-> "*ARef"]
AbstractClassMethodException == "AbstractClassMethodException"

\* a.Deref(): for the concrete classes to implement; on the embedded ARef the
\* call is not dispatched to them
Deref(a) == [a |-> a, val |-> Nil, panic |-> AbstractClassMethodException]
\* a.validate(vf, val): an empty body
validate(a, vf, val) == a
\* a.SetValidator(vf): its argument a.Deref() is evaluated first
SetValidatorWith(val, vf) ==
    IF Panicked(val) THEN val
    ELSE [a |-> [validate(val.a, vf, val.val) EXCEPT !.validator = vf],
          val |-> Nil, panic |-> NoPanic]
SetValidator(a, vf) == SetValidatorWith(Deref(a), vf)
GetValidator(a) == a.validator
GetWatches(a) == a.watches

\* a removal whose result is dropped: Without returns a new map and leaves the
\* receiver as it is
RemoveWatchDropsResult(a, key) == a

AddWatch(a, key, callback) == [a EXCEPT !.watches = Assoc(@, key, callback)]
RemoveWatch(a, key) == [a EXCEPT !.watches = Without(@, key)]

RECURSIVE NotifyWatchesLoop(_, _, _)
\* the for loop of NotifyWatches from the seq s on: the calls fn.Invoke(key, a,
\* oldval, newval) it makes, in order
NotifyWatchesLoop(s, oldval, newval) ==
    IF s = <<>> THEN <<>>
    ELSE (IF Head(s)[2] # Nil
          THEN <<[fn |-> Head(s)[2], args |-> <<Head(s)[1], This, oldval, newval>>]>>
          ELSE <<>>)
            \o NotifyWatchesLoop(Tail(s), oldval, newval)
NotifyWatches(a, oldval, newval) ==
    IF Count(a.watches) > 0 THEN NotifyWatchesLoop(MapSeq(a.watches), oldval, newval)
    ELSE <<>>

(***************************************************************************)
(* Inputs                                                                  *)
(***************************************************************************)
SeqsUpTo(S, n) == UNION {[1..k -> S] : k \in 0..n}

RECURSIVE Join(_)
\* the texts of ts, one space between two
Join(ts) ==
    IF ts = <<>> THEN <<>>
    ELSE IF Len(ts) = 1 THEN ts[1]
    ELSE ts[1] \o <<" ">> \o Join(Tail(ts))

SymA == InternSymbol(<<"a">>)
SymB == InternSymbol(<<"b">>)

\* texts of well-formed forms, each with the form it denotes
Atoms ==
    { [text |-> <<"a">>, form |-> SymA],
      [text |-> <<"b">>, form |-> SymB],
      [text |-> <<":", "a">>, form |-> InternKeyword(SymA)],
      [text |-> <<"1">>, form |-> GoInt(1)],
      [text |-> <<"2">>, form |-> GoInt(2)],
      [text |-> <<"1", "2">>, form |-> GoInt(12)],
      [text |-> <<"n", "i", "l">>, form |-> Nil] }

Collections ==
    { [text |-> <<"(", ")">>, form |-> EMPTY_PERSISTENT_LIST],
      [text |-> <<"(", "a", ")">>, form |-> List(<<SymA>>)],
      [text |-> <<"(", "a", " ", "(", "b", ")", ")">>, form |-> List(<<SymA, List(<<SymB>>)>>)],
      [text |-> <<"[", "a", " ", "2", "]">>, form |-> Vector(<<SymA, GoInt(2)>>)] }

Forms == Atoms \cup Collections

\* every rune sequence of at most MaxBody of these runes
FreeRunes == {"a", "1", "+", " ", "(", ")", ";", "#"}
FreeInputs == SeqsUpTo(FreeRunes, MaxBody)

\* a form, then perhaps a terminating rune and more
Terminators == {<<>>, <<" ">>, <<")">>, <<" ", "b">>}
FormInputs == {f.text \o t : f \in Forms, t \in Terminators}

\* a comment line, then a form
CommentLines ==
    {<<";">> \o c \o <<"\n">> : c \in {<<>>, <<"b">>, <<"(", " ">>}}
       \cup {<<"#", "!">> \o c \o <<"\r">> : c \in {<<>>, <<"b">>}}
CommentInputs == {c \o f.text \o <<" ">> : c \in CommentLines, f \in Forms}

\* #_ X Y
DiscardInputs ==
    {<<"#", "_">> \o x.text \o <<" ">> \o y.text \o <<" ">> : x \in Forms, y \in Atoms}

\* the body of a collection, its closing delimiter or none, and what follows
Delims == {")", "]", "}"}
BodyForms ==
    {f \in Forms : f.text \in {<<"a">>, <<"1">>, <<"1", "2">>, <<"(", "a", ")">>}}
Bodies == SeqsUpTo(BodyForms, 2)
BodyText(es) == Join([i \in 1..Len(es) |-> es[i].text])
FormsOf(es) == [i \in 1..Len(es) |-> es[i].form]
DelimitedInputs ==
    {BodyText(es) \o d \o t : es \in Bodies, d \in {<<")">>, <<"]">>}, t \in {<<>>, <<"a">>}}
       \cup {BodyText(es) \o <<" ">> : es \in Bodies}

\* a collection closed by a bracket that is not its own
UnmatchedInputs == {<<"(", "1", " ", "]">>, <<"[", "a", "}", "]">>, <<"{", ")", " ", "a", "}">>}

\* map literals of at most MaxForms forms, closed or not
MapAtoms == {f \in Atoms : f.text \in {<<"a">>, <<"1">>}}
MapBodies == SeqsUpTo(MapAtoms, MaxForms)
MapInputs == {<<"{">> \o BodyText(es) \o d : es \in MapBodies, d \in {<<"}">>, <<>>}}

\* a decimal number, signed or not, and the rune that ends it
Signs == {<<>>, <<"+">>, <<"-">>}
Digits == SeqsUpTo({"1", "2"}, MaxDigits) \ {<<>>}
NumberEnds == {" ", ")", ";"}
NumberInputs == {sg \o ds \o <<t>> : sg \in Signs, ds \in Digits, t \in NumberEnds}

\* the tokens that can end an input, each with the form it denotes
Tokens == Atoms \cup {[text |-> <<sg>>, form |-> InternSymbol(<<sg>>)] : sg \in {"+", "-"}}
TokenInputs == {f.text : f \in Tokens}

\* string literals: the escapes the string syntax supports, each with its string
StringLiterals ==
    { [text |-> <<"\"", "a", "\"">>, form |-> Str(<<"a">>)],
      [text |-> <<"\"", "\"">>, form |-> Str(<<>>)],
      [text |-> <<"\"", "\\", "n", "\"">>, form |-> Str(<<"\n">>)],
      [text |-> <<"\"", "\\", "\\", "\"">>, form |-> Str(<<"\\">>)],
      [text |-> <<"\"", "\\", "\"", "\"">>, form |-> Str(<<"\"">>)] }
\* string literals with an escape the string syntax does not have: no such
\* escape, too few hex digits, an octal escape above 377
BadEscapes ==
    { <<"\"", "\\", "q", "\"">>,
      <<"\"", "\\", "u", "4", "1", "\"">>,
      <<"\"", "\\", "4", "0", "0", "\"">> }
StringInputs == {f.text \o t : f \in StringLiterals, t \in {<<>>, <<" ">>}} \cup BadEscapes

\* set literals: the elements are distinct, or one is repeated
SetLiterals ==
    { [text |-> <<"#", "{", "}">>, elems |-> {}],
      [text |-> <<"#", "{", "a", "}">>, elems |-> {SymA}],
      [text |-> <<"#", "{", "a", " ", "1", "}">>, elems |-> {SymA, GoInt(1)}],
      [text |-> <<"#", "{", "1", " ", "2", " ", "a", "}">>, elems |-> {GoInt(1), GoInt(2), SymA}] }
DuplicateSets == {<<"#", "{", "a", " ", "a", "}">>, <<"#", "{", "1", " ", "2", " ", "1", "}">>}
SetInputs == {f.text : f \in SetLiterals} \cup DuplicateSets

\* nothing but spaces before the end of the input
BlankInputs == {<<>>, <<" ">>, <<" ", "\n">>}
\* the input ends inside a string, a regex, a dispatch or a collection
UnterminatedInputs ==
    { <<"\"", "a">>, <<"\"", "a", "\\">>, <<"#", "\"", "a">>, <<"#">>, <<" ", "#">>,
      <<"(", "a", " ">>, <<"(", "1", " ">>, <<"[", "a", " ">>, <<"[", "(", "a", ")", " ">>, <<"{", "a", " ", "1", " ">>, <<"#", "{", "a", " ">> }

\* numeric tokens of each grammar, with the number each denotes, and tokens of
\* no grammar (NumberInputs has the decimal tokens of more than one digit)
Ratio(num, den) == [t |-> "Ratio", num |-> num, den |-> den]
NumericTokens ==
    { [text |-> <<"0">>, form |-> GoInt(0)],
      [text |-> <<"7">>, form |-> GoInt(7)],
      [text |-> <<"0", "x", "1", "f">>, form |-> GoInt(31)],
      [text |-> <<"0", "1", "7">>, form |-> GoInt(15)],
      [text |-> <<"2", "r", "1", "1">>, form |-> GoInt(3)],
      [text |-> <<"1", "/", "2">>, form |-> Ratio(GoInt(1), GoInt(2))],
      [text |-> <<"1", ".", "5">>, form |-> GoFloat(<<"1", ".", "5">>)],
      [text |-> <<"1", "e", "2">>, form |-> GoFloat(<<"1", "e", "2">>)] }
MalformedNumbers == {<<"1", "a">>, <<"0", "8">>, <<"1", "/">>, <<"2", "r", "2">>}
NumericInputs ==
    {tk \o <<" ">> : tk \in {f.text : f \in NumericTokens} \cup MalformedNumbers}

\* symbol and keyword tokens, and tokens that break the rules for them
SymbolTokens ==
    { [text |-> <<"a">>, form |-> Symbol(<<>>, <<"a">>)],
      [text |-> <<"a", "/", "b">>, form |-> Symbol(<<"a">>, <<"b">>)],
      [text |-> <<"/">>, form |-> Symbol(<<>>, <<"/">>)],
      [text |-> <<":", "a">>, form |-> Keyword(Symbol(<<>>, <<"a">>))],
      [text |-> <<":", "a", "/", "b">>, form |-> Keyword(Symbol(<<"a">>, <<"b">>))],
      [text |-> <<":", ":", "a">>, form |-> Keyword(Symbol(CurrentNS, <<"a">>))] }
BadSymbolTokens ==
    { <<"a", "/", "1">>, <<"/", "a">>, <<"a", "/">>, <<"a", ":">>, <<"a", ":", ":", "b">>, <<"a", ":", "/", "b">>, <<"a", "/", "b", "/", "c">> }
SymbolInputs ==
    {tk \o <<" ">> : tk \in {f.text : f \in SymbolTokens} \cup BadSymbolTokens}

\* #= and a form
EvalAtReadInputs == {<<"#", "=">> \o f.text \o <<" ">> : f \in Forms}

\* ' or @ and a form
WrappingRunes == {"'", "@"}
WrappingInputs == {<<w>> \o f.text \o <<" ">> : w \in WrappingRunes, f \in Forms}

LiteralInputs ==
    StringInputs \cup SetInputs \cup BlankInputs \cup UnterminatedInputs
       \cup NumericInputs \cup SymbolInputs \cup EvalAtReadInputs \cup WrappingInputs

Inputs ==
    FreeInputs \cup FormInputs \cup CommentInputs \cup DiscardInputs
       \cup DelimitedInputs \cup UnmatchedInputs \cup NumberInputs \cup TokenInputs
EvalInputs == FreeInputs \cup FormInputs

(***************************************************************************)
(* The state machine                                                       *)
(***************************************************************************)
\* the caller's eofValue
EofValue == [t |-> "eofValue"]
\* the caller's opts
Opts == Nil

\* the forms a caller put on its pending-forms queue
Queues == {<<>>, <<SymB, SymA>>}

NoCall ==
    [op |-> "none", eofIsError |-> FALSE, returnOn |-> NUL, isRecursive |-> FALSE,
     pendingForms |-> NilPending, pos |-> 1, lastRuneSize |-> -1, queue |-> <<>>,
     val |-> Nil, panic |-> NoPanic]

\* the reader and the heap before a call
Reader ==
    [pos |-> pos, lastRuneSize |-> lastRuneSize, queue |-> queue, pushbacks |-> pushbacks]

\* the keys, the callbacks (nil is one) and the values of the calls on the ARef
WatchKeys == {Keyword(SymA), Keyword(SymB)}
Callbacks == {IFn("f"), IFn("g"), Nil}
Vals == {GoInt(1), GoInt(2)}

NoACall ==
    [op |-> "none", key |-> Nil, callback |-> Nil, oldval |-> Nil, newval |-> Nil,
     watches |-> EmptyMap, validator |-> Nil, invoked |-> <<>>, panic |-> NoPanic]

\* the receiver before a call
ARefNow == [watches |-> watches, validator |-> validator]

\* the ARef as the constructor of its concrete class leaves it: no watch, no
\* validator
ARefNew ==
    /\ watches = EmptyMap
    /\ validator = Nil
    /\ acall = NoACall
    /\ history = <<>>

\* CreateLispReader(input), with the package variables initialised
InitWith(ins) ==
    /\ input \in ins
    /\ pos = 1
    /\ lastRuneSize = -1
    /\ pushbacks = 0
    /\ call = NoCall
    /\ ARefNew
    /\ \/ /\ readEval \in {Bool(TRUE), Bool(FALSE), UNKNOWN}
          /\ queue \in Queues
          /\ READ_EOF = 0
          /\ READ_FINISHED = MaxRand
       \/ /\ readEval = Bool(FALSE)
          /\ queue = <<>>
          /\ \/ READ_EOF \in 0..MaxRand /\ READ_FINISHED = MaxRand
             \/ READ_EOF = 0 /\ READ_FINISHED \in 0..MaxRand

Init == InitWith(Inputs)
InitMap == InitWith(MapInputs)
InitEval == InitWith(EvalInputs)
InitLiteral == InitWith(LiteralInputs)

\* the call op(args) ends with outcome o: the reader is left as o.r, and call
\* records the arguments, the reader before the call and what came back
Returns(args, o) ==
    /\ pos' = o.r.pos
    /\ lastRuneSize' = o.r.lastRuneSize
    /\ queue' = o.r.queue
    /\ pushbacks' = o.r.pushbacks
    /\ call' = [op |-> args.op, eofIsError |-> args.eofIsError, returnOn |-> args.returnOn,
                isRecursive |-> args.isRecursive, pendingForms |-> args.pendingForms,
                pos |-> pos, lastRuneSize |-> lastRuneSize, queue |-> queue,
                val |-> o.val, panic |-> o.panic]
    /\ UNCHANGED <<input, readEval, READ_EOF, READ_FINISHED>>
    /\ UNCHANGED arefVars

\* lr.Read(eofIsError, EofValue, 0, nil, isRecursive, Opts, pendingForms), by a
\* caller that recovers from a panic and calls again; no call follows one that
\* does not return
ReadCall(eofIsError, isRecursive, pendingForms) ==
    /\ call.panic # NoReturn
    /\ Returns([op |-> "Read", eofIsError |-> eofIsError, returnOn |-> NUL,
                isRecursive |-> isRecursive, pendingForms |-> pendingForms],
               Read(Reader, eofIsError, EofValue, NUL, Nil, isRecursive, Opts, pendingForms))

\* lr.ReadDelimitedList(delim, true, Opts, pendingForms)
ReadDelimitedListCall(delim, pendingForms) ==
    /\ call.panic # NoReturn
    /\ Returns([op |-> "ReadDelimitedList", eofIsError |-> FALSE, returnOn |-> delim,
                isRecursive |-> TRUE, pendingForms |-> pendingForms],
               ReadDelimitedList(Reader, delim, TRUE, Opts, pendingForms))

\* what a caller passes for pendingForms: nil while it has queued nothing, else
\* its queue, by pointer or by value
PendingArgs == IF queue = <<>> THEN {NilPending} ELSE {QueuePtr, QueueCopy}

Next ==
    \/ \E eofIsError \in BOOLEAN, isRecursive \in BOOLEAN, pendingForms \in PendingArgs :
          ReadCall(eofIsError, isRecursive, pendingForms)
    \/ \E delim \in Delims, pendingForms \in PendingArgs :
          ReadDelimitedListCall(delim, pendingForms)

Spec == Init /\ [][Next]_vars
SpecMap == InitMap /\ [][Next]_vars
SpecEval == InitEval /\ [][Next]_vars
SpecLiteral == InitLiteral /\ [][Next]_vars

\* the call op(args) on the ARef ends with the fields a, the calls invoked of
\* callbacks and the panic given; acall records the arguments and the fields
\* before the call
AReturns(args, a, invoked, panic) ==
    /\ watches' = a.watches
    /\ validator' = a.validator
    /\ acall' = [op |-> args.op, key |-> args.key, callback |-> args.callback,
                 oldval |-> args.oldval, newval |-> args.newval,
                 watches |-> watches, validator |-> validator,
                 invoked |-> invoked, panic |-> panic]
    /\ UNCHANGED readerVars

ACall(op) == [NoACall EXCEPT !.op = op]

\* a.AddWatch(key, callback)
AddWatchCall(key, callback) ==
    /\ Len(history) < MaxCalls
    /\ history' = Append(history, [op |-> "AddWatch", key |-> key, callback |-> callback])
    /\ AReturns([ACall("AddWatch") EXCEPT !.key = key, !.callback = callback],
                AddWatch(ARefNow, key, callback), <<>>, NoPanic)

\* a.RemoveWatch(key)
RemoveWatchCall(key) ==
    /\ Len(history) < MaxCalls
    /\ history' = Append(history, [op |-> "RemoveWatch", key |-> key, callback |-> Nil])
    /\ AReturns([ACall("RemoveWatch") EXCEPT !.key = key],
                RemoveWatch(ARefNow, key), <<>>, NoPanic)

\* a.NotifyWatches(oldval, newval)
NotifyWatchesCall(oldval, newval) ==
    /\ AReturns([ACall("NotifyWatches") EXCEPT !.oldval = oldval, !.newval = newval],
                ARefNow, NotifyWatches(ARefNow, oldval, newval), NoPanic)
    /\ UNCHANGED history

\* a.SetValidator(vf)
SetValidatorReturns(vf, o) ==
    /\ AReturns([ACall("SetValidator") EXCEPT !.callback = vf], o.a, <<>>, o.panic)
    /\ UNCHANGED history
SetValidatorCall(vf) == SetValidatorReturns(vf, SetValidator(ARefNow, vf))

NextARef ==
    \/ \E key \in WatchKeys, callback \in Callbacks : AddWatchCall(key, callback)
    \/ \E key \in WatchKeys : RemoveWatchCall(key)
    \/ \E oldval \in Vals, newval \in Vals : NotifyWatchesCall(oldval, newval)
    \/ \E vf \in Callbacks : SetValidatorCall(vf)

\* an ARef on its own: the reader is left as created
InitARef == InitWith({<<>>}) /\ readEval = Bool(FALSE) /\ READ_EOF = 0 /\ READ_FINISHED = MaxRand
SpecARef == InitARef /\ [][NextARef]_vars

(***************************************************************************)
(* Properties                                                              *)
(***************************************************************************)
\* a call that found the read-eval flag known and nothing queued
Plain(op) == call.op = op /\ readEval # UNKNOWN /\ call.queue = <<>>
\* such a call, made on the fresh reader
First(op) == Plain(op) /\ call.pos = 1

\* C1: with READEVAL bound to :unknown every call of Read fails, alone or under
\* ReadDelimitedList, recursive or not, whatever is queued, and when it fails no
\* rune has been consumed and the pending-forms queue is as it was
C1_UnknownReadEvalFails ==
    (readEval = UNKNOWN /\ call.op # "none") =>
        /\ call.panic = "Reading disallowed - *read-eval* bound to :unknown"
        /\ pos = call.pos
        /\ lastRuneSize = call.lastRuneSize
        /\ queue = call.queue

\* a recursive Read of whitespace-only input with forms queued failed so
C1_Witness ==
    /\ readEval = UNKNOWN
    /\ call.op = "Read" /\ call.isRecursive /\ call.pendingForms = QueuePtr
    /\ call.queue # <<>>
    /\ input # <<>> /\ \A i \in 1..Len(input) : IsSpace(input[i])
    /\ call.panic # NoPanic

\* the first rune at or after index p that is no space, NUL when there is none
RECURSIVE FirstRune(_)
FirstRune(p) ==
    IF p > Len(input) THEN NUL
    ELSE IF IsSpace(input[p]) THEN FirstRune(p + 1)
    ELSE input[p]

C3_DiscardReadsNextForm ==
    \A x \in Forms, y \in Atoms :
        (First("Read") /\ input = <<"#", "_">> \o x.text \o <<" ">> \o y.text \o <<" ">>) =>
            /\ call.panic = NoPanic
            /\ call.val = y.form
            /\ pos = Len(input)

\* C4: ReadDelimitedList returns the forms before the closing delimiter, in
\* order, a nested collection as one element, and consumes the delimiter and no
\* more; without the delimiter it fails with the EOF error
C4_DelimitedListForms ==
    \A es \in Bodies :
        /\ \A d \in {")", "]"}, t \in {<<>>, <<"a">>} :
              (First("ReadDelimitedList") /\ call.returnOn = d
                  /\ input = BodyText(es) \o <<d>> \o t) =>
                  /\ call.panic = NoPanic
                  /\ call.val = FormsOf(es)
                  /\ pos = Len(BodyText(es)) + 2
        /\ (First("ReadDelimitedList") /\ input = BodyText(es) \o <<" ">>) =>
              call.panic = "EOF while reading"

\* C5: a number token reads as the integer its digits denote, the text parsed
\* being the runes up to the rune that ends the token
C5_NumberTextIsInput ==
    \A sg \in Signs, ds \in Digits, t \in NumberEnds :
        (First("Read") /\ input = sg \o ds \o <<t>>) =>
            /\ call.panic = NoPanic
            /\ call.val = GoInt(SignedValue(sg \o ds))
            /\ pos = Len(input)

\* C6: no form read from the input equals a sentinel, and no integer of a
\* collection ends the collection or reports EOF; nor does the closing delimiter
\* report EOF, as it would if the two sentinels were equal
C6_SentinelsAreNoForms ==
    /\ (Plain("Read") /\ call.panic = NoPanic /\ pos > call.pos) =>
          call.val \notin {GoInt(READ_EOF), GoInt(READ_FINISHED)}
    /\ \A es \in Bodies, t \in {<<>>, <<"a">>} :
          (First("ReadDelimitedList") /\ call.returnOn = ")"
              /\ input = BodyText(es) \o <<")">> \o t) =>
              /\ call.panic # "EOF while reading"
              /\ call.panic = NoPanic => Len(call.val) = Len(es)

\* C7: Read with forms queued on the list it is handed returns the head of the
\* queue, removes it, and reads no rune
C7_PendingFormsFirst ==
    (call.op = "Read" /\ readEval # UNKNOWN /\ call.pendingForms = QueuePtr
        /\ call.queue # <<>>) =>
        /\ call.panic = NoPanic
        /\ call.val = Head(call.queue)
        /\ queue = Tail(call.queue)
        /\ pos = call.pos /\ lastRuneSize = call.lastRuneSize

\* C8: a token that the end of the input ends reads as its form, with no error
C8_TokenEndsAtEOF ==
    \A f \in Tokens :
        (First("Read") /\ input = f.text) =>
            call.panic = NoPanic /\ call.val = f.form

MapBodyRead(p) ==
    ReadDelimitedList([pos |-> p + 1, lastRuneSize |-> 1, queue |-> call.queue,
                       pushbacks |-> 0],
                      "}", TRUE, Opts, ensurePending(call.pendingForms))

\* the entries of the map of the key/value sequence kvs
Pairs(kvs) == [i \in 1..(Len(kvs) \div 2) |-> <<kvs[2 * i - 1], kvs[2 * i]>>]
DistinctKeys(kvs) ==
    \A i, j \in 1..(Len(kvs) \div 2) : i # j => kvs[2 * i - 1] # kvs[2 * j - 1]

\* C10: a map literal whose body reads to 2n forms with distinct keys yields the
\* map of the n pairs, each odd-position form with the form after it; a body of
\* odd length fails with the odd-map-literal error and yields no map
C10_MapLiteralPairs ==
    (call.op = "Read" /\ readEval # UNKNOWN /\ call.pendingForms # QueueCopy
        /\ call.pos <= Len(input) /\ input[call.pos] = "{") =>
        LET body == MapBodyRead(call.pos) IN
        /\ Panicked(body) => call.panic = body.panic
        /\ (~Panicked(body) /\ Len(body.val) % 2 = 1) =>
              /\ call.panic = "Map literal must contain an even number of forms."
              /\ call.val = Nil
        /\ (~Panicked(body) /\ Len(body.val) % 2 = 0 /\ DistinctKeys(body.val)) =>
              /\ call.panic = NoPanic
              /\ call.val.t = "*PersistentArrayMap"
              /\ call.val.entries = Pairs(body.val)
              /\ Len(call.val.entries) = Len(body.val) \div 2
              /\ pos = body.r.pos

\* {a 1 1 a} was read to a map of two entries
C10_Witness ==
    /\ call.op = "Read" /\ call.pos = 1 /\ call.panic = NoPanic
    /\ input = <<"{", "a", " ", "1", " ", "1", " ", "a", "}">>
    /\ call.val = [t |-> "*PersistentArrayMap",
                   entries |-> <<(<<SymA, GoInt(1)>>), (<<GoInt(1), SymA>>)>>]

\* C18: one rune of lookahead: UnreadRune is never called twice with no call of
\* ReadRune in between, within a call of an exported method or from one call to
\* the next
C18_OneRuneOfLookahead == pushbacks # 2

\* a call that pushed back the rune after a sign, read it again as the end of
\* the token and pushed it back once more
C18_Witness ==
    /\ call.op = "Read" /\ call.pos = 1 /\ call.panic = NoPanic
    /\ input = <<"+", " ">>
    /\ call.val = InternSymbol(<<"+">>)
    /\ pos = 2 /\ pushbacks = 1

\* C11: a string literal with a supported escape reads to its string; one with
\* an escape that is not supported, a \u with fewer than 4 hex digits or an octal
\* escape above 377 fails and returns no string
C11_StringEscapes ==
    /\ \A f \in StringLiterals :
          (First("Read") /\ input \in {f.text, f.text \o <<" ">>}) =>
              call.panic = NoPanic /\ call.val = f.form
    /\ (First("Read") /\ input \in BadEscapes) => call.panic # NoPanic

\* the set of the elements elems
HashSet(elems) == [t |-> "*PersistentHashSet", elems |-> elems]

\* C12: a set literal of distinct elements reads to the set of them, and one
\* with a repeated element fails
C12_SetLiteral ==
    /\ \A f \in SetLiterals :
          (First("Read") /\ input = f.text) =>
              /\ call.panic = NoPanic
              /\ call.val = HashSet(f.elems)
              /\ pos = Len(input) + 1
    /\ (First("Read") /\ input \in DuplicateSets) => call.panic # NoPanic

\* C13: a Read that meets the end of the input after spaces only returns
\* eofValue, or fails if eofIsError; the end of the input inside a string, a
\* regex, a dispatch or a collection is an error whatever eofIsError is
C13_EndOfInput ==
    /\ (Plain("Read") /\ FirstRune(call.pos) = NUL) =>
          IF call.eofIsError THEN call.panic = "EOF while reading"
          ELSE call.panic = NoPanic /\ call.val = EofValue
    /\ (First("Read") /\ input \in UnterminatedInputs) => call.panic # NoPanic

\* C14: a numeric token reads to the number of the grammar it matches, in the
\* radix of the token, and a token of no grammar fails
C14_NumberGrammars ==
    /\ \A f \in NumericTokens :
          (First("Read") /\ input = f.text \o <<" ">>) =>
              call.panic = NoPanic /\ call.val = f.form
    /\ \A tk \in MalformedNumbers :
          (First("Read") /\ input = tk \o <<" ">>) => call.panic # NoPanic

\* the symbol invariant: a name that is not empty and begins with no digit, a
\* namespace that does not end with ":/"
SymbolInvariant(sym) ==
    /\ sym.name # <<>>
    /\ ~IsDigit(sym.name[1])
    /\ ~HasSuffix(sym.ns, <<":", "/">>)

\* C15: every symbol and keyword read satisfies the symbol invariant, and a
\* token that breaks the rules for symbols is rejected
C15_SymbolInvariant ==
    /\ (Plain("Read") /\ call.panic = NoPanic /\ call.val.t = "*Symbol") =>
          SymbolInvariant(call.val)
    /\ (Plain("Read") /\ call.panic = NoPanic /\ call.val.t = "*Keyword") =>
          SymbolInvariant(call.val.sym)
    /\ \A tk \in BadSymbolTokens :
          (First("Read") /\ input = tk \o <<" ">>) => call.panic # NoPanic

\* C16: with the read-eval flag false, #= and a form fails and returns no value
C16_EvalDisallowed ==
    (First("Read") /\ readEval = Bool(FALSE) /\ input \in EvalAtReadInputs) =>
        call.panic # NoPanic

\* C17: ' and @ before a form f read to (quote f) and (deref f), and leave the
\* reader after f
C17_WrappingReaders ==
    \A w \in WrappingRunes, f \in Forms :
        (First("Read") /\ input = <<w>> \o f.text \o <<" ">>) =>
            /\ call.panic = NoPanic
            /\ call.val = List(<<IF w = "'" THEN QUOTE ELSE DEREF, f.form>>)
            /\ pos = Len(input)

\* C19: every call of Read returns, with a form, the eofValue or an error: no
\* input and no pending-forms argument makes it repeat a pass of its loop, or of
\* the loop of ReadDelimitedList under it, for ever; and a call that returned a
\* form read from the input consumed at least one rune
C19_ReadTerminates ==
    /\ call.op = "Read" => call.panic # NoReturn
    /\ (Plain("Read") /\ call.panic = NoPanic /\ call.val # EofValue) => pos > call.pos

\* a Read that ran the loop of ReadDelimitedList twice, the inner one under the
\* outer one, and returned at the closing delimiter
C19_Witness ==
    /\ First("Read") /\ call.panic = NoPanic
    /\ input = <<"(", "a", " ", "(", "b", ")", ")">>
    /\ call.val = List(<<SymA, List(<<SymB>>)>>)
    /\ pos = 8

\* the last call of history about key, 0 when there is none
LastCallOn(key) ==
    IF \E i \in 1..Len(history) : history[i].key = key
    THEN CHOOSE i \in 1..Len(history) :
            history[i].key = key /\ \A j \in (i + 1)..Len(history) : history[j].key # key
    ELSE 0
\* the keys added and not removed afterwards
Registered ==
    {k \in WatchKeys : LastCallOn(k) # 0 /\ history[LastCallOn(k)].op = "AddWatch"}
\* the values m binds key to
ValuesAt(m, key) == {m.entries[i][2] : i \in {j \in 1..Len(m.entries) : m.entries[j][1] = key}}
\* the entries of m for key
EntriesAt(m, key) == {j \in 1..Len(m.entries) : m.entries[j][1] = key}

====
